---- MODULE Spec2Model ----
(***************************************************************************)
(* The StreamNative secrets backend of vault-plugin-streamnative: the     *)
(* handlers handleWrite, handleDelete and handleRead over the Vault       *)
(* storage, the token cache kept inside the stored record (ttl, cachedAt, *)
(* cachedToken), and the calls to snctl that issue a token.               *)
(*                                                                         *)
(* Strings are tuples of ASCII codes.  An int64 is a tuple of four 16-bit *)
(* limbs, least significant first, in two's complement, so that the       *)
(* arithmetic of the code wraps exactly where Go's int64 wraps.           *)
(***************************************************************************)
EXTENDS Integers, Sequences, FiniteSets, TLC

\* ------------------------------------------------------------ bounds

\* The clock runs over the instants s*1000 + f, s in 0..MaxSec, f in 0..MaxFrac.
MaxSec == 1
MaxFrac == 1
\* The issuer hands out at most MaxIssue tokens.
MaxIssue == 2

\* ------------------------------------------------------------ int64

\* ttl64 * 1000: seconds to milliseconds.
MillisPerSecond == 1000

LimbBase == 2^16

I64Zero == <<0, 0, 0, 0>>

I64One == <<1, 0, 0, 0>>

MaxInt64 == <<LimbBase - 1, LimbBase - 1, LimbBase - 1, (LimbBase \div 2) - 1>>

MinInt64 == <<0, 0, 0, LimbBase \div 2>>

\* int64(n) of a small natural number n.
I64FromNat(n) == <<n % LimbBase, (n \div LimbBase) % LimbBase, 0, 0>>

\* a + b in int64: the carry out of the top limb is dropped.
I64Add(a, b) ==
  LET s1 == a[1] + b[1]
      s2 == a[2] + b[2] + (s1 \div LimbBase)
      s3 == a[3] + b[3] + (s2 \div LimbBase)
      s4 == a[4] + b[4] + (s3 \div LimbBase)
  IN  <<s1 % LimbBase, s2 % LimbBase, s3 % LimbBase, s4 % LimbBase>>

\* a * k in int64, for a small k >= 0: the carry out of the top limb is dropped.
I64MulSmall(a, k) ==
  LET p1 == a[1] * k
      p2 == a[2] * k + (p1 \div LimbBase)
      p3 == a[3] * k + (p2 \div LimbBase)
      p4 == a[4] * k + (p3 \div LimbBase)
  IN  <<p1 % LimbBase, p2 % LimbBase, p3 % LimbBase, p4 % LimbBase>>

\* -a in int64 (two's complement).
I64Neg(a) ==
  I64Add(<<LimbBase - 1 - a[1], LimbBase - 1 - a[2],
           LimbBase - 1 - a[3], LimbBase - 1 - a[4]>>, I64One)

I64IsNeg(a) == a[4] >= LimbBase \div 2

\* a < b on the limbs read as unsigned numbers.
U64Less(a, b) ==
  \/ a[4] < b[4]
  \/ a[4] = b[4] /\ a[3] < b[3]
  \/ a[4] = b[4] /\ a[3] = b[3] /\ a[2] < b[2]
  \/ a[4] = b[4] /\ a[3] = b[3] /\ a[2] = b[2] /\ a[1] < b[1]

\* a < b in int64.
I64Less(a, b) ==
  IF I64IsNeg(a) # I64IsNeg(b) THEN I64IsNeg(a) ELSE U64Less(a, b)

\* ------------------------------------------------------------ strconv

IsDigit(c) == c >= 48 /\ c <= 57

\* The digits of an unsigned 64-bit number: quotient and remainder by ten.
U64DivTen(a) ==
  LET c4 == a[4]
      c3 == (c4 % 10) * LimbBase + a[3]
      c2 == (c3 % 10) * LimbBase + a[2]
      c1 == (c2 % 10) * LimbBase + a[1]
  IN  [q |-> <<c1 \div 10, c2 \div 10, c3 \div 10, c4 \div 10>>, r |-> c1 % 10]

RECURSIVE U64Digits(_)
U64Digits(a) ==
  IF a = I64Zero THEN <<>>
  ELSE LET d == U64DivTen(a) IN Append(U64Digits(d.q), 48 + d.r)

\* strconv.FormatInt(a, 10), which encoding/json uses for an int64.
FormatInt(a) ==
  IF a = I64Zero THEN <<48>>
  ELSE IF I64IsNeg(a) THEN <<45>> \o U64Digits(I64Neg(a))
  ELSE U64Digits(a)

\* acc * 10 + d as an unsigned 64-bit number; over is set once it no longer fits.
RECURSIVE U64Parse(_, _, _)
U64Parse(s, i, acc) ==
  IF i > Len(s) THEN acc
  ELSE LET p1 == acc.v[1] * 10 + (s[i] - 48)
           p2 == acc.v[2] * 10 + (p1 \div LimbBase)
           p3 == acc.v[3] * 10 + (p2 \div LimbBase)
           p4 == acc.v[4] * 10 + (p3 \div LimbBase)
       IN  U64Parse(s, i + 1,
             [v |-> <<p1 % LimbBase, p2 % LimbBase, p3 % LimbBase, p4 % LimbBase>>,
              over |-> acc.over \/ p4 >= LimbBase])

\* strconv.ParseInt(s, 10, 64): an optional sign, then decimal digits only;
\* a value outside int64 is an error.  json.Number.Int64 and (on a 64-bit
\* build) strconv.Atoi are this function.
ParseInt(s) ==
  LET signed == Len(s) > 0 /\ s[1] \in {43, 45}
      neg    == Len(s) > 0 /\ s[1] = 45
      digits == IF signed THEN Tail(s) ELSE s
      mag    == U64Parse(digits, 1, [v |-> I64Zero, over |-> FALSE])
  IN  IF Len(digits) = 0 \/ \E i \in 1..Len(digits) : ~IsDigit(digits[i])
        THEN [ok |-> FALSE, val |-> I64Zero]
      ELSE IF mag.over THEN [ok |-> FALSE, val |-> I64Zero]
      ELSE IF neg
        THEN IF I64IsNeg(mag.v) /\ mag.v # MinInt64
               THEN [ok |-> FALSE, val |-> I64Zero]
               ELSE [ok |-> TRUE, val |-> I64Neg(mag.v)]
      ELSE IF I64IsNeg(mag.v) THEN [ok |-> FALSE, val |-> I64Zero]
      ELSE [ok |-> TRUE, val |-> mag.v]

\* ------------------------------------------------------------ values

\* A value of a map[string]interface{}: its Go type t and its content v.
\* Absent stands for a key the map does not hold.
Absent == [t |-> "absent", v |-> <<>>]

Null == [t |-> "nil", v |-> <<>>]

Str(s) == [t |-> "string", v |-> s]

\* A json.Number: the literal as it stands in the JSON text.
Num(s) == [t |-> "json.Number", v |-> s]

Bool(b) == [t |-> "bool", v |-> IF b THEN <<1>> ELSE <<0>>]

GoInt(a) == [t |-> "int", v |-> a]

GoInt64(a) == [t |-> "int64", v |-> a]

\* A float64 whole + frac/2 with a sign: <<1 if negative, whole, 1 if a half follows>>.
GoFloat64(neg, whole, half) == [t |-> "float64", v |-> <<neg, whole, half>>]

\* A JSON object or array: a map[string]interface{} or []interface{}.
GoMap == [t |-> "map", v |-> <<>>]

Fields == {"key-file", "organization", "cluster", "ttl", "cachedAt", "cachedToken", "note"}

\* The empty map; as a storage value, no entry at the path (Storage.Get gives nil).
NoEntry == [f \in Fields |-> Absent]

Has(data, f) == data[f].t # "absent"

\* data[f] == nil: the key is missing or holds a JSON null.
IsNil(data, f) == data[f].t \in {"absent", "nil"}

\* json.Marshal of the map: an int or int64 is written as its decimal digits;
\* strings, numbers and null are written as they are.
Marshal(data) ==
  [f \in Fields |->
     IF data[f].t \in {"int", "int64"} THEN Num(FormatInt(data[f].v)) ELSE data[f]]

\* jsonutil.DecodeJSON of stored bytes: UseNumber, so a number stays its literal.
DecodeJSON(bytes) == bytes

\* ------------------------------------------------------------ the cache

\* readCachedToken with a record without ttl taken as one of ttl 0.
readCachedTokenNoTtl(data, t) ==
  IF ~(Has(data, "cachedAt") /\ Has(data, "cachedToken"))
    THEN [kind |-> "miss", tok |-> <<>>]
  ELSE IF Has(data, "ttl")
            /\ (data["ttl"].t # "json.Number" \/ ~ParseInt(data["ttl"].v).ok)
    THEN [kind |-> "panic", tok |-> <<>>]
  ELSE IF data["cachedAt"].t # "json.Number" \/ ~ParseInt(data["cachedAt"].v).ok
    THEN [kind |-> "panic", tok |-> <<>>]
  ELSE LET ttl64      == IF Has(data, "ttl") THEN ParseInt(data["ttl"].v).val
                         ELSE I64Zero
           cachedAt64 == ParseInt(data["cachedAt"].v).val
           expiresAt  == I64Add(cachedAt64, I64MulSmall(ttl64, MillisPerSecond))
       IN  IF I64Less(I64FromNat(t), expiresAt)
             THEN IF data["cachedToken"].t = "string"
                    THEN [kind |-> "hit", tok |-> data["cachedToken"].v]
                    ELSE [kind |-> "panic", tok |-> <<>>]
             ELSE [kind |-> "miss", tok |-> <<>>]

\* readCachedToken with now <= expiresAt for now < expiresAt.
readCachedTokenInclusive(data, t) ==
  IF ~(Has(data, "ttl") /\ Has(data, "cachedAt") /\ Has(data, "cachedToken"))
    THEN [kind |-> "miss", tok |-> <<>>]
  ELSE IF data["ttl"].t # "json.Number" \/ ~ParseInt(data["ttl"].v).ok
    THEN [kind |-> "panic", tok |-> <<>>]
  ELSE IF data["cachedAt"].t # "json.Number" \/ ~ParseInt(data["cachedAt"].v).ok
    THEN [kind |-> "panic", tok |-> <<>>]
  ELSE LET ttl64      == ParseInt(data["ttl"].v).val
           cachedAt64 == ParseInt(data["cachedAt"].v).val
           expiresAt  == I64Add(cachedAt64, I64MulSmall(ttl64, MillisPerSecond))
       IN  IF ~I64Less(expiresAt, I64FromNat(t))
             THEN IF data["cachedToken"].t = "string"
                    THEN [kind |-> "hit", tok |-> data["cachedToken"].v]
                    ELSE [kind |-> "panic", tok |-> <<>>]
             ELSE [kind |-> "miss", tok |-> <<>>]

\* readCachedToken at the instant t: hit with the cached token, miss, or panic.
readCachedToken(data, t) ==
  IF ~(Has(data, "ttl") /\ Has(data, "cachedAt") /\ Has(data, "cachedToken"))
    THEN [kind |-> "miss", tok |-> <<>>]
  ELSE IF data["ttl"].t # "json.Number" \/ ~ParseInt(data["ttl"].v).ok
    THEN [kind |-> "panic", tok |-> <<>>]
  ELSE IF data["cachedAt"].t # "json.Number" \/ ~ParseInt(data["cachedAt"].v).ok
    THEN [kind |-> "panic", tok |-> <<>>]
  ELSE LET ttl64      == ParseInt(data["ttl"].v).val
           cachedAt64 == ParseInt(data["cachedAt"].v).val
           expiresAt  == I64Add(cachedAt64, I64MulSmall(ttl64, MillisPerSecond))
       IN  IF I64Less(I64FromNat(t), expiresAt)
             THEN IF data["cachedToken"].t = "string"
                    THEN [kind |-> "hit", tok |-> data["cachedToken"].v]
                    ELSE [kind |-> "panic", tok |-> <<>>]
             ELSE [kind |-> "miss", tok |-> <<>>]

\* saveCachedToken that sets cachedToken and leaves cachedAt as it was.
saveCachedTokenTokenOnly(data, token, t) ==
  IF ~Has(data, "ttl") THEN [put |-> FALSE, bytes |-> NoEntry]
  ELSE [put |-> TRUE, bytes |-> Marshal([data EXCEPT !["cachedToken"] = Str(token)])]

\* saveCachedToken without the return for a record without ttl.
saveCachedTokenAlways(data, token, t) ==
  [put |-> TRUE,
   bytes |-> Marshal([data EXCEPT !["cachedAt"] = GoInt64(I64FromNat(t)),
                                  !["cachedToken"] = Str(token)])]

\* saveCachedToken that puts the fields the backend knows and drops the others.
saveCachedTokenKnownFields(data, token, t) ==
  IF ~Has(data, "ttl") THEN [put |-> FALSE, bytes |-> NoEntry]
  ELSE [put |-> TRUE,
        bytes |-> Marshal([data EXCEPT !["cachedAt"] = GoInt64(I64FromNat(t)),
                                       !["cachedToken"] = Str(token),
                                       !["note"] = Absent])]

\* saveCachedToken at the instant t: the bytes it puts, or no put without a ttl.
saveCachedToken(data, token, t) ==
  IF ~Has(data, "ttl") THEN [put |-> FALSE, bytes |-> NoEntry]
  ELSE [put |-> TRUE,
        bytes |-> Marshal([data EXCEPT !["cachedAt"] = GoInt64(I64FromNat(t)),
                                       !["cachedToken"] = Str(token)])]

\* validateKeyData with organization checked before key-file.
validateKeyDataOrgFirst(data) ==
  IF IsNil(data, "organization") THEN "No 'organization' set"
  ELSE IF IsNil(data, "key-file") THEN "No 'key-file' set"
  ELSE IF IsNil(data, "cluster") THEN "No 'cluster' set"
  ELSE ""

\* validateKeyData: the message of the error response, "" for none.
validateKeyData(data) ==
  IF IsNil(data, "key-file") THEN "No 'key-file' set"
  ELSE IF IsNil(data, "organization") THEN "No 'organization' set"
  ELSE IF IsNil(data, "cluster") THEN "No 'cluster' set"
  ELSE ""

\* The ttl switch of handleWrite: the int64 stored, an error, or a panic
\* (reflect.TypeOf(nil).Name() on a JSON null).
coerceTtl(x) ==
  CASE x.t \in {"int", "int64"} -> [kind |-> "ok", val |-> x.v]
    [] x.t \in {"json.Number", "string"} ->
         IF ParseInt(x.v).ok THEN [kind |-> "ok", val |-> ParseInt(x.v).val]
         ELSE [kind |-> "error", val |-> I64Zero]
    [] x.t = "float64" ->
         [kind |-> "ok",
          val |-> IF x.v[1] = 1 THEN I64Neg(I64FromNat(x.v[2])) ELSE I64FromNat(x.v[2])]
    [] x.t = "nil" -> [kind |-> "panic", val |-> I64Zero]
    [] OTHER -> [kind |-> "error", val |-> I64Zero]

\* handleWrite up to the Put: what it would store, or how it ends before.
writeBytes(payload) ==
  IF ~Has(payload, "ttl") THEN [kind |-> "ok", bytes |-> Marshal(payload)]
  ELSE LET c == coerceTtl(payload["ttl"])
       IN  IF c.kind = "ok"
             THEN [kind |-> "ok",
                   bytes |-> Marshal([payload EXCEPT !["ttl"] = GoInt64(c.val)])]
             ELSE [kind |-> c.kind, bytes |-> NoEntry]

\* The message with which handleWrite refuses the ttl x.
ttlRefusal(x) ==
  IF x.t \in {"json.Number", "string"} THEN "ttl is not an integer"
  ELSE IF x.t = "nil" THEN "nil pointer dereference"
  ELSE "ttl is not a scalar"

\* ------------------------------------------------------------ inputs

KeyA == <<107, 49>>

KeyB == <<107, 50>>

OrgA == <<111, 49>>

ClusterA == <<99, 49>>

\* A cachedToken a write payload carries.
Forged == <<102>>

\* The n-th output of `snctl auth get-token`.
TokenOf(n) == <<116, 48 + n>>

Digits(n) == FormatInt(I64FromNat(n))

Pay(k, o, c, ttl, at, tok, note) ==
  [f \in Fields |->
     CASE f = "key-file" -> k
       [] f = "organization" -> o
       [] f = "cluster" -> c
       [] f = "ttl" -> ttl
       [] f = "cachedAt" -> at
       [] f = "cachedToken" -> tok
       [] OTHER -> note]

\* "-9223372036854776": the negative ttl closest to zero whose product with
\* 1000 is below the smallest int64.
WrappingTtl == <<45, 57, 50, 50, 51, 51, 55, 50, 48, 51, 54, 56, 53, 52, 55, 55, 54>>

\* The ttl values of the write payloads: every branch of the ttl switch.
TtlInputs ==
  { Num(Digits(0)), Num(Digits(1)), Num(FormatInt(MaxInt64)),
    Num(<<45, 49>>), Num(<<49, 46, 53>>), Str(Digits(1)), Str(<<97, 98, 99>>),
    GoInt(I64One), GoInt64(I64Zero), GoFloat64(0, 1, 1), Bool(TRUE), Null,
    Num(WrappingTtl), GoMap }

\* Payloads over the presence of the three required fields.
RequiredPayloads ==
  { Pay(k, o, c, Absent, Absent, Absent, Absent) :
      k \in {Absent, Null, Str(KeyA)}, o \in {Absent, Str(OrgA)},
      c \in {Absent, Str(ClusterA)} }

\* Complete credentials with every ttl.
TtlPayloads ==
  { Pay(Str(KeyA), Str(OrgA), Str(ClusterA), ttl, Absent, Absent, Absent) :
      ttl \in TtlInputs }

\* Complete credentials with cache fields in the payload.
CachePayloads ==
  { Pay(Str(KeyA), Str(OrgA), Str(ClusterA), x[1], x[2], x[3], Absent) :
      x \in { <<Num(Digits(1)), Num(Digits(0)), Str(Forged)>>,
              <<Num(Digits(0)), Num(Digits(MillisPerSecond)), Str(Forged)>>,
              <<Num(FormatInt(MaxInt64)), Num(Digits(0)), Str(Forged)>>,
              <<Absent, Num(Digits(MillisPerSecond)), Str(Forged)>>,
              <<Num(Digits(1)), Absent, Str(Forged)>>,
              <<Num(Digits(1)), Num(Digits(0)), Absent>>,
              <<Num(Digits(1)), Str(Digits(0)), Str(Forged)>>,
              <<Num(Digits(1)), Num(Digits(0)), Num(Digits(7))>> } }

\* Other credentials, fields of the wrong type, a field the backend does not know.
OtherPayloads ==
  { Pay(Str(KeyB), Str(OrgA), Str(ClusterA), Num(Digits(1)), Absent, Absent, Absent),
    Pay(Num(Digits(7)), Str(OrgA), Str(ClusterA), Absent, Absent, Absent, Absent),
    Pay(Str(KeyA), Num(Digits(7)), Str(ClusterA), Absent, Absent, Absent, Absent),
    Pay(Str(KeyA), Str(OrgA), Str(ClusterA), Num(Digits(1)), Absent, Absent, Str(KeyB)),
    Pay(Absent, Str(OrgA), Absent, Num(Digits(1)), Num(Digits(0)), Str(Forged), Absent),
    Pay(Absent, Absent, Absent, Absent, Absent, Absent, Str(KeyB)) }

Payloads == RequiredPayloads \cup TtlPayloads \cup CachePayloads \cup OtherPayloads

Paths == {"acct1"}

Readers == {"r1", "r2"}

MaxNow == MaxSec * MillisPerSecond + MaxFrac

\* ------------------------------------------------------------ state

VARIABLES
  storage,    \* path -> the stored bytes (as the map they encode), or NoEntry
  lastWrite,  \* path -> what the last handleWrite or handleDelete did there
  now,        \* time.Now().UnixMilli()
  issued,     \* the tokens snctl has issued so far
  issuedFor,  \* n -> the key file and arguments get-token ran with for token n
  snctlDir,   \* ~/.snctl exists
  tmpFiles,   \* the readers whose snio-key-*.json file exists
  readers,    \* reader -> the handleRead call it runs, or ran last
  writeResp   \* what the handleWrite or handleDelete that has just returned gave

vars ==
  <<storage, lastWrite, now, issued, issuedFor, snctlDir, tmpFiles, readers, writeResp>>

Res(kind, msg, tok) == [kind |-> kind, msg |-> msg, tok |-> tok]

\* A handleRead call: pc is the step it is at ("idle": no call; "done": the
\* call has returned and its response is on its way to the client); got is what Storage.Get gave; data the decoded record; lw the
\* lastWrite of the path at the Get; at the instant of readCachedToken (-1
\* before); tok the output of get-token; calls the runs of get-token;
\* result what the call returned.
IdleRead ==
  [pc |-> "idle", path |-> "", got |-> "none", data |-> NoEntry, lw |-> "none",
   at |-> -1, tok |-> <<>>, calls |-> 0, result |-> Res("none", "", <<>>)]

\* The key file written for, and the arguments given to, get-token.
Credentials(data) == <<data["key-file"], data["organization"], data["cluster"]>>

\* No handleWrite or handleDelete has returned a response not yet taken.
NoResp == Res("none", "", <<>>)

Init ==
  /\ storage = [p \in Paths |-> NoEntry]
  /\ lastWrite = [p \in Paths |-> "none"]
  /\ now = 0
  /\ issued = 0
  /\ issuedFor = <<>>
  /\ snctlDir \in BOOLEAN
  /\ tmpFiles = {}
  /\ readers = [r \in Readers |-> IdleRead]
  /\ writeResp = NoResp

\* No handleRead is in flight.
Quiet == \A r \in Readers : readers[r].pc \in {"idle", "done"}

\* No response is waiting to be taken.
Taken == writeResp = NoResp /\ \A r \in Readers : readers[r].pc # "done"

\* The payload carries a cache field.
CarriesCache(payload) == Has(payload, "cachedAt") \/ Has(payload, "cachedToken")

\* ------------------------------------------------------------ the clock

Tick ==
  /\ \E t \in (now + 1)..MaxNow : (t % MillisPerSecond) <= MaxFrac /\ now' = t
  /\ UNCHANGED <<writeResp, storage, lastWrite, issued, issuedFor, snctlDir, tmpFiles, readers>>

\* ------------------------------------------------------------ write, delete

\* handleWrite that keeps the cache fields of the record it replaces.
handleWriteKeepCache(p, payload) ==
  /\ UNCHANGED <<now, issued, issuedFor, snctlDir, tmpFiles, readers>>
  /\ IF payload = NoEntry
       THEN \/ /\ storage' = [storage EXCEPT ![p] = NoEntry]
               /\ lastWrite' = [lastWrite EXCEPT ![p] = "none"]
               /\ writeResp' = Res("ok", "", <<>>)
            \/ /\ UNCHANGED <<storage, lastWrite>>
               /\ writeResp' = Res("error", "Deleting from storage failed", <<>>)
       ELSE LET w == writeBytes(payload)
            IN  \/ /\ w.kind = "ok"
                   /\ storage' =
                        [storage EXCEPT
                           ![p] = [w.bytes EXCEPT
                                     !["cachedAt"] = storage[p]["cachedAt"],
                                     !["cachedToken"] = storage[p]["cachedToken"]]]
                   /\ lastWrite' =
                        [lastWrite EXCEPT
                           ![p] = IF CarriesCache(payload) THEN "cache" ELSE "plain"]
                   /\ writeResp' = Res("ok", "", <<>>)
                \/ /\ w.kind = "ok"
                   /\ UNCHANGED <<storage, lastWrite>>
                   /\ writeResp' = Res("error", "Putting to storage failed", <<>>)
                \/ /\ w.kind # "ok"
                   /\ UNCHANGED <<storage, lastWrite>>
                   /\ writeResp' = Res(w.kind, ttlRefusal(payload["ttl"]), <<>>)

\* handleWrite(path, payload).
handleWrite(p, payload) ==
  /\ UNCHANGED <<now, issued, issuedFor, snctlDir, tmpFiles, readers>>
  /\ IF payload = NoEntry
       THEN \* len(req.Data) == 0: Storage.Delete, which may fail
            \/ /\ storage' = [storage EXCEPT ![p] = NoEntry]
               /\ lastWrite' = [lastWrite EXCEPT ![p] = "none"]
               /\ writeResp' = Res("ok", "", <<>>)
            \/ /\ UNCHANGED <<storage, lastWrite>>
               /\ writeResp' = Res("error", "Deleting from storage failed", <<>>)
       ELSE LET w == writeBytes(payload)
            IN  \/ /\ w.kind = "ok"
                   /\ storage' = [storage EXCEPT ![p] = w.bytes]
                   /\ lastWrite' =
                        [lastWrite EXCEPT
                           ![p] = IF CarriesCache(payload) THEN "cache" ELSE "plain"]
                   /\ writeResp' = Res("ok", "", <<>>)
                \/ \* Storage.Put fails
                   /\ w.kind = "ok"
                   /\ UNCHANGED <<storage, lastWrite>>
                   /\ writeResp' = Res("error", "Putting to storage failed", <<>>)
                \/ \* the ttl is refused, or reflect.TypeOf(nil).Name() panics
                   /\ w.kind # "ok"
                   /\ UNCHANGED <<storage, lastWrite>>
                   /\ writeResp' = Res(w.kind, ttlRefusal(payload["ttl"]), <<>>)

\* handleDelete(path): Storage.Delete, which may fail.
handleDelete(p) ==
  /\ UNCHANGED <<now, issued, issuedFor, snctlDir, tmpFiles, readers>>
  /\ \/ /\ storage' = [storage EXCEPT ![p] = NoEntry]
        /\ lastWrite' = [lastWrite EXCEPT ![p] = "none"]
        /\ writeResp' = Res("ok", "", <<>>)
     \/ /\ UNCHANGED <<storage, lastWrite>>
        /\ writeResp' = Res("error", "Deleting from storage failed", <<>>)

\* The framework takes the response of a returned handleWrite or handleDelete.
RespondWrite ==
  /\ writeResp # NoResp
  /\ writeResp' = NoResp
  /\ UNCHANGED <<storage, lastWrite, now, issued, issuedFor, snctlDir, tmpFiles, readers>>

\* ------------------------------------------------------------ read

\* A return that skips the removal of the key file.
RemoveTmpLeak(files, r) == files

\* defer os.Remove(tmpKeyFile.Name()): the files left once reader r returns.
RemoveTmp(files, r) == files \ {r}

\* handleRead returns res.
Return(r, res) == [readers EXCEPT ![r].pc = "done", ![r].result = res]

\* handleRead from Storage.Get to validateKeyData.  ent.Value of the nil entry
\* that Get gives for a path without entry is a nil pointer dereference.
ReadGet(r, p) ==
  /\ readers[r].pc = "idle"
  /\ UNCHANGED <<writeResp, storage, lastWrite, now, issued, issuedFor, snctlDir, tmpFiles>>
  /\ \/ readers' = [readers EXCEPT ![r] =
          [IdleRead EXCEPT !.pc = "done", !.path = p, !.got = "error",
             !.result = Res("error", "Reading from storage failed", <<>>)]]
     \/ /\ storage[p] = NoEntry
        /\ readers' = [readers EXCEPT ![r] =
             [IdleRead EXCEPT !.pc = "done", !.path = p, !.got = "nil",
                !.result = Res("panic", "nil pointer dereference", <<>>)]]
     \/ /\ storage[p] # NoEntry
        /\ LET data == DecodeJSON(storage[p])
               msg  == validateKeyData(data)
               call == [IdleRead EXCEPT !.path = p, !.got = "entry", !.data = data,
                                        !.lw = lastWrite[p]]
           IN  readers' = [readers EXCEPT ![r] =
                 IF msg # "" THEN [call EXCEPT !.pc = "done",
                                              !.result = Res("response", msg, <<>>)]
                 ELSE [call EXCEPT !.pc = "cache"]]

\* handleRead: readCachedToken.
ReadCache(r) ==
  /\ readers[r].pc = "cache"
  /\ UNCHANGED <<writeResp, storage, lastWrite, now, issued, issuedFor, snctlDir, tmpFiles>>
  /\ LET c    == readCachedToken(readers[r].data, now)
         call == [readers[r] EXCEPT !.at = now]
     IN  readers' = [readers EXCEPT ![r] =
           CASE c.kind = "hit" ->
                  [call EXCEPT !.pc = "done", !.result = Res("token", "", c.tok)]
             [] c.kind = "panic" ->
                  [call EXCEPT !.pc = "done",
                               !.result = Res("panic", "cache field type", <<>>)]
             [] OTHER -> [call EXCEPT !.pc = "init"]]

\* readNewToken: requireSnctlConfig.
ReadInit(r) ==
  /\ readers[r].pc = "init"
  /\ UNCHANGED <<writeResp, storage, lastWrite, now, issued, issuedFor, tmpFiles>>
  /\ \/ \* os.UserHomeDir fails
        /\ readers' = Return(r, Res("error", "No user HOME directory", <<>>))
        /\ UNCHANGED snctlDir
     \/ \* ~/.snctl is there
        /\ snctlDir
        /\ readers' = [readers EXCEPT ![r].pc = "tmp"]
        /\ UNCHANGED snctlDir
     \/ \* `snctl config init` creates it
        /\ ~snctlDir
        /\ snctlDir' = TRUE
        /\ readers' = [readers EXCEPT ![r].pc = "tmp"]
     \/ \* `snctl config init` fails
        /\ ~snctlDir
        /\ readers' = Return(r, Res("error", "snctl config init", <<>>))
        /\ UNCHANGED snctlDir

\* readNewToken: ioutil.TempFile, the deferred os.Remove, ioutil.WriteFile.
ReadTmp(r) ==
  /\ readers[r].pc = "tmp"
  /\ UNCHANGED <<writeResp, storage, lastWrite, now, issued, issuedFor, snctlDir>>
  /\ \/ \* TempFile fails: no file, nothing deferred
        /\ readers' = Return(r, Res("error", "Failed to open temp file", <<>>))
        /\ UNCHANGED tmpFiles
     \/ \* keyFileBytes.(string) panics with the file created
        /\ readers[r].data["key-file"].t # "string"
        /\ readers' = Return(r, Res("panic", "key-file is not a string", <<>>))
        /\ tmpFiles' = RemoveTmp(tmpFiles \cup {r}, r)
     \/ /\ readers[r].data["key-file"].t = "string"
        /\ readers' = [readers EXCEPT ![r].pc = "activate"]
        /\ tmpFiles' = tmpFiles \cup {r}

\* readNewToken: activateServiceAccount.
ReadActivate(r) ==
  /\ readers[r].pc = "activate"
  /\ UNCHANGED <<writeResp, storage, lastWrite, now, issued, issuedFor, snctlDir>>
  /\ \/ /\ readers' = Return(r, Res("error", "activate-service-account", <<>>))
        /\ tmpFiles' = RemoveTmp(tmpFiles, r)
     \/ /\ readers' = [readers EXCEPT ![r].pc = "issue"]
        /\ UNCHANGED tmpFiles

\* ReadIssue that runs the command a second time when it fails.
ReadIssueRetry(r) ==
  /\ readers[r].pc = "issue"
  /\ UNCHANGED <<writeResp, storage, lastWrite, now, snctlDir>>
  /\ LET data == readers[r].data
         args == data["organization"].t = "string" /\ data["cluster"].t = "string"
     IN  \/ /\ ~args
            /\ readers' = Return(r, Res("panic", "argument is not a string", <<>>))
            /\ tmpFiles' = RemoveTmp(tmpFiles, r)
            /\ UNCHANGED <<issued, issuedFor>>
         \/ /\ args
            /\ readers' = [Return(r, Res("error", "get-token", <<>>))
                             EXCEPT ![r].calls = @ + 2]
            /\ tmpFiles' = RemoveTmp(tmpFiles, r)
            /\ UNCHANGED <<issued, issuedFor>>
         \/ /\ args
            /\ issued < MaxIssue
            /\ issued' = issued + 1
            /\ issuedFor' = Append(issuedFor, Credentials(data))
            /\ readers' = [readers EXCEPT ![r].pc = "save", ![r].calls = @ + 1,
                                          ![r].tok = TokenOf(issued + 1)]
            /\ UNCHANGED tmpFiles

\* readNewToken: `snctl -n org auth get-token cluster -f file`.
ReadIssue(r) ==
  /\ readers[r].pc = "issue"
  /\ UNCHANGED <<writeResp, storage, lastWrite, now, snctlDir>>
  /\ LET data == readers[r].data
         args == data["organization"].t = "string" /\ data["cluster"].t = "string"
     IN  \/ \* org.(string) or cluster.(string) panics
            /\ ~args
            /\ readers' = Return(r, Res("panic", "argument is not a string", <<>>))
            /\ tmpFiles' = RemoveTmp(tmpFiles, r)
            /\ UNCHANGED <<issued, issuedFor>>
         \/ \* the command fails
            /\ args
            /\ readers' = [Return(r, Res("error", "get-token", <<>>))
                             EXCEPT ![r].calls = @ + 1]
            /\ tmpFiles' = RemoveTmp(tmpFiles, r)
            /\ UNCHANGED <<issued, issuedFor>>
         \/ /\ args
            /\ issued < MaxIssue
            /\ issued' = issued + 1
            /\ issuedFor' = Append(issuedFor, Credentials(data))
            /\ readers' = [readers EXCEPT ![r].pc = "save", ![r].calls = @ + 1,
                                          ![r].tok = TokenOf(issued + 1)]
            /\ UNCHANGED tmpFiles

\* ReadSave that sets the cache fields in the record stored now, not in the
\* record the call loaded.
ReadSaveStored(r) ==
  /\ readers[r].pc = "save"
  /\ UNCHANGED <<writeResp, lastWrite, now, issued, issuedFor, snctlDir>>
  /\ tmpFiles' = RemoveTmp(tmpFiles, r)
  /\ LET s == saveCachedToken(storage[readers[r].path], readers[r].tok, now)
     IN  \/ /\ ~s.put
            /\ readers' = Return(r, Res("token", "", readers[r].tok))
            /\ UNCHANGED storage
         \/ /\ s.put
            /\ storage' = [storage EXCEPT ![readers[r].path] = s.bytes]
            /\ readers' = Return(r, Res("token", "", readers[r].tok))
         \/ /\ s.put
            /\ readers' = Return(r, Res("error", "Saving to storage failed", <<>>))
            /\ UNCHANGED storage

\* readNewToken: saveCachedToken, then the return of handleRead.
ReadSave(r) ==
  /\ readers[r].pc = "save"
  /\ UNCHANGED <<writeResp, lastWrite, now, issued, issuedFor, snctlDir>>
  /\ tmpFiles' = RemoveTmp(tmpFiles, r)
  /\ LET s == saveCachedToken(readers[r].data, readers[r].tok, now)
     IN  \/ /\ ~s.put
            /\ readers' = Return(r, Res("token", "", readers[r].tok))
            /\ UNCHANGED storage
         \/ /\ s.put
            /\ storage' = [storage EXCEPT ![readers[r].path] = s.bytes]
            /\ readers' = Return(r, Res("token", "", readers[r].tok))
         \/ \* Storage.Put fails: readNewToken returns the error
            /\ s.put
            /\ readers' = Return(r, Res("error", "Saving to storage failed", <<>>))
            /\ UNCHANGED storage

\* The framework takes the response of a returned call: the call is gone.
Respond(r) ==
  /\ readers[r].pc = "done"
  /\ readers' = [readers EXCEPT ![r] = IdleRead]
  /\ UNCHANGED <<writeResp, storage, lastWrite, now, issued, issuedFor, snctlDir, tmpFiles>>

Read(r) ==
  \/ \E p \in Paths : ReadGet(r, p)
  \/ ReadCache(r)
  \/ ReadInit(r)
  \/ ReadTmp(r)
  \/ ReadActivate(r)
  \/ ReadIssue(r)
  \/ ReadSave(r)

\* ------------------------------------------------------------ specifications

\* One request at a time: a write or delete starts when no read is in flight,
\* and one reader reads.  A response is taken before anything else happens.
Next ==
  \/ Taken /\ Tick
  \/ \E p \in Paths, payload \in Payloads : Taken /\ Quiet /\ handleWrite(p, payload)
  \/ \E p \in Paths : Taken /\ Quiet /\ handleDelete(p)
  \/ Taken /\ Read("r1")
  \/ Respond("r1")
  \/ RespondWrite

Spec == Init /\ [][Next]_vars

\* The payloads of the writes that overlap a read.
OverlapPayloads ==
  { NoEntry,
    Pay(Str(KeyA), Str(OrgA), Str(ClusterA), Absent, Absent, Absent, Absent),
    Pay(Str(KeyA), Str(OrgA), Str(ClusterA), Num(Digits(1)), Absent, Absent, Absent),
    Pay(Str(KeyB), Str(OrgA), Str(ClusterA), Num(Digits(1)), Absent, Absent, Absent),
    Pay(Num(Digits(7)), Str(OrgA), Str(ClusterA), Absent, Absent, Absent, Absent),
    Pay(Str(KeyA), Num(Digits(7)), Str(ClusterA), Absent, Absent, Absent, Absent),
    Pay(Str(KeyA), Str(OrgA), Str(ClusterA), Absent,
        Num(Digits(MillisPerSecond)), Str(Forged), Absent),
    Pay(Str(KeyA), Str(OrgA), Str(ClusterA), Num(Digits(1)),
        Absent, Str(Forged), Absent),
    Pay(Absent, Str(OrgA), Absent, Num(Digits(1)), Num(Digits(0)), Str(Forged), Absent) }

\* Writes and deletes that overlap the call of one reader: they may come
\* between any two steps of handleRead.
NextOverlap ==
  \/ Taken /\ Tick
  \/ \E p \in Paths, payload \in OverlapPayloads : Taken /\ handleWrite(p, payload)
  \/ \E p \in Paths : Taken /\ handleDelete(p)
  \/ Taken /\ Read("r1")
  \/ Respond("r1")
  \/ RespondWrite

SpecOverlap == Init /\ [][NextOverlap]_vars

\* The payloads of the writes between two racing reads.
RacePayloads ==
  { Pay(Str(KeyA), Str(OrgA), Str(ClusterA), Absent, Absent, Absent, Absent),
    Pay(Str(KeyA), Str(OrgA), Str(ClusterA), Num(Digits(1)), Absent, Absent, Absent),
    Pay(Str(KeyB), Str(OrgA), Str(ClusterA), Num(Digits(0)), Absent, Absent, Absent) }

\* Two handleRead calls at once, their steps interleaved in any order; a write
\* or delete starts when no read is in flight.
NextRace ==
  \/ Taken /\ Tick
  \/ \E p \in Paths, payload \in RacePayloads : Taken /\ Quiet /\ handleWrite(p, payload)
  \/ \E p \in Paths : Taken /\ Quiet /\ handleDelete(p)
  \/ \E r \in Readers : Taken /\ Read(r)
  \/ \E r \in Readers : Respond(r)
  \/ RespondWrite

SpecRace == Init /\ [][NextRace]_vars

\* The payloads of the writes that overlap two reads: none carries a cache field.
InterleavedPayloads ==
  { NoEntry,
    Pay(Str(KeyA), Str(OrgA), Str(ClusterA), Num(Digits(1)), Absent, Absent, Absent),
    Pay(Str(KeyB), Str(OrgA), Str(ClusterA), Num(Digits(1)), Absent, Absent, Absent) }

\* Two handleRead calls, writes and deletes, their steps in any order.
NextInterleaved ==
  \/ Taken /\ Tick
  \/ \E p \in Paths, payload \in InterleavedPayloads : Taken /\ handleWrite(p, payload)
  \/ \E p \in Paths : Taken /\ handleDelete(p)
  \/ \E r \in Readers : Taken /\ Read(r)
  \/ \E r \in Readers : Respond(r)
  \/ RespondWrite

SpecInterleaved == Init /\ [][NextInterleaved]_vars

\* ------------------------------------------------------------ backend.go
\* The backend of backend.go: handleRead without cache, handleWrite without
\* the ttl switch.  From the temp file to get-token its handleRead is the code
\* of readNewToken, and its handleDelete is the same function.

\* handleWrite of backend.go: the payload is marshalled as it is.
handleWriteUncached(p, payload) ==
  /\ UNCHANGED <<now, issued, issuedFor, snctlDir, tmpFiles, readers>>
  /\ IF payload = NoEntry
       THEN \/ /\ storage' = [storage EXCEPT ![p] = NoEntry]
               /\ lastWrite' = [lastWrite EXCEPT ![p] = "none"]
               /\ writeResp' = Res("ok", "", <<>>)
            \/ /\ UNCHANGED <<storage, lastWrite>>
               /\ writeResp' = Res("error", "Deleting from storage failed", <<>>)
       ELSE \/ /\ storage' = [storage EXCEPT ![p] = Marshal(payload)]
               /\ lastWrite' =
                    [lastWrite EXCEPT
                       ![p] = IF CarriesCache(payload) THEN "cache" ELSE "plain"]
               /\ writeResp' = Res("ok", "", <<>>)
            \/ \* Storage.Put fails
               /\ UNCHANGED <<storage, lastWrite>>
               /\ writeResp' = Res("error", "Putting to storage failed", <<>>)

\* handleRead of backend.go from Storage.Get to DecodeJSON.
UncachedReadGet(r, p) ==
  /\ readers[r].pc = "idle"
  /\ UNCHANGED <<writeResp, storage, lastWrite, now, issued, issuedFor, snctlDir, tmpFiles>>
  /\ \/ readers' = [readers EXCEPT ![r] =
          [IdleRead EXCEPT !.pc = "done", !.path = p, !.got = "error",
             !.result = Res("error", "Reading from storage failed", <<>>)]]
     \/ /\ storage[p] = NoEntry
        /\ readers' = [readers EXCEPT ![r] =
             [IdleRead EXCEPT !.pc = "done", !.path = p, !.got = "nil",
                !.result = Res("panic", "nil pointer dereference", <<>>)]]
     \/ /\ storage[p] # NoEntry
        /\ readers' = [readers EXCEPT ![r] =
             [IdleRead EXCEPT !.pc = "config", !.path = p, !.got = "entry",
                              !.data = DecodeJSON(storage[p]), !.lw = lastWrite[p]]]

\* handleRead of backend.go: where it goes once requireSnctlConfig is through,
\* the tests of key-file, organization and cluster.
UncachedValidate(r) ==
  LET msg == validateKeyData(readers[r].data)
  IN  IF msg # "" THEN Return(r, Res("response", msg, <<>>))
      ELSE [readers EXCEPT ![r].pc = "tmp"]

\* handleRead of backend.go: requireSnctlConfig, then the three tests.
UncachedReadConfig(r) ==
  /\ readers[r].pc = "config"
  /\ UNCHANGED <<writeResp, storage, lastWrite, now, issued, issuedFor, tmpFiles>>
  /\ \/ \* os.UserHomeDir fails
        /\ readers' = Return(r, Res("error", "No user HOME directory", <<>>))
        /\ UNCHANGED snctlDir
     \/ \* ~/.snctl is there
        /\ snctlDir
        /\ readers' = UncachedValidate(r)
        /\ UNCHANGED snctlDir
     \/ \* `snctl config init` creates it
        /\ ~snctlDir
        /\ snctlDir' = TRUE
        /\ readers' = UncachedValidate(r)
     \/ \* `snctl config init` fails
        /\ ~snctlDir
        /\ readers' = Return(r, Res("error", "snctl config init", <<>>))
        /\ UNCHANGED snctlDir

\* handleRead of backend.go: the response with the output of get-token.
UncachedReadReturn(r) ==
  /\ readers[r].pc = "save"
  /\ UNCHANGED <<writeResp, storage, lastWrite, now, issued, issuedFor, snctlDir>>
  /\ tmpFiles' = RemoveTmp(tmpFiles, r)
  /\ readers' = Return(r, Res("token", "", readers[r].tok))

UncachedRead(r) ==
  \/ \E p \in Paths : UncachedReadGet(r, p)
  \/ UncachedReadConfig(r)
  \/ ReadTmp(r)
  \/ ReadActivate(r)
  \/ ReadIssue(r)
  \/ UncachedReadReturn(r)

\* One request at a time, to the backend of backend.go.
NextUncached ==
  \/ \E p \in Paths, payload \in Payloads :
       Taken /\ Quiet /\ handleWriteUncached(p, payload)
  \/ \E p \in Paths : Taken /\ Quiet /\ handleDelete(p)
  \/ Taken /\ UncachedRead("r1")
  \/ Respond("r1")
  \/ RespondWrite

SpecUncached == Init /\ [][NextUncached]_vars

\* ------------------------------------------------------------ reading the state
\* (what the properties below say of a state; no part of the backend)

\* The integer a small int64 stands for (|a| < 2^20).
IsSmallInt(a) ==
  LET m == IF I64IsNeg(a) THEN I64Neg(a) ELSE a
  IN  m[4] = 0 /\ m[3] = 0 /\ m[2] < 16

IntOf(a) ==
  LET m == IF I64IsNeg(a) THEN I64Neg(a) ELSE a
      n == m[1] + m[2] * LimbBase
  IN  IF I64IsNeg(a) THEN 0 - n ELSE n

\* The field holds an integer literal.
IsInteger(data, f) == data[f].t = "json.Number" /\ ParseInt(data[f].v).ok

IntField(data, f) == ParseInt(data[f].v).val

\* t < cachedAt + ttl * 1000 over the integers, without wrapping, for a small
\* cachedAt: a ttl beyond 2^20 seconds puts the sum beyond every instant of
\* the clock, on the side of its sign.
Before(t, cachedAt, ttl) ==
  IF IsSmallInt(ttl)
    THEN t < IntOf(cachedAt) + IntOf(ttl) * MillisPerSecond
    ELSE ~I64IsNeg(ttl)

\* ttl, cachedAt and cachedToken are all there (two integers and a string),
\* and t is before cachedAt + ttl*1000.
CacheValid(data, t) ==
  /\ Has(data, "ttl") /\ Has(data, "cachedAt") /\ Has(data, "cachedToken")
  /\ IsInteger(data, "ttl") /\ IsInteger(data, "cachedAt")
  /\ data["cachedToken"].t = "string"
  /\ IsSmallInt(IntField(data, "cachedAt"))
  /\ Before(t, IntField(data, "cachedAt"), IntField(data, "ttl"))

\* The call of reader r has returned a token it took from the cache.
ServedFromCache(r) ==
  /\ readers[r].pc = "done"
  /\ readers[r].result.kind = "token"
  /\ readers[r].calls = 0

\* The call of reader r has returned the token that its own get-token printed.
ServedFresh(r) ==
  /\ readers[r].pc = "done"
  /\ readers[r].calls = 1
  /\ readers[r].tok # <<>>
  /\ readers[r].result = Res("token", "", readers[r].tok)

\* The three required fields are strings.
Complete(data) ==
  /\ data["key-file"].t = "string"
  /\ data["organization"].t = "string"
  /\ data["cluster"].t = "string"

\* ------------------------------------------------------------ claims

\* C1: a read serves the cached token if and only if ttl, cachedAt and
\* cachedToken are all present in the record and now < cachedAt + ttl*1000
\* (so at now = cachedAt + ttl*1000 it does not), for every stored record.
C1_ServedIffValid ==
  \A r \in Readers :
    readers[r].at >= 0 =>
      (ServedFromCache(r) <=> CacheValid(readers[r].data, readers[r].at))

\* C2: after a write of complete credentials with ttl T > 0 and no cache
\* fields, the first read that returns a token has run get-token exactly once
\* and returns its output; a later read before cachedAt + T*1000 (no write or
\* delete in between) returns the token cached then and runs get-token never.
C2_RoundTrip ==
  \A r \in Readers :
    LET d == readers[r].data
    IN  ( /\ readers[r].pc = "done"
          /\ readers[r].got = "entry"
          /\ readers[r].lw = "plain"
          /\ Complete(d)
          /\ IsInteger(d, "ttl")
          /\ I64Less(I64Zero, IntField(d, "ttl")) ) =>
        /\ ( ~Has(d, "cachedToken") /\ readers[r].result.kind = "token" )
             => ServedFresh(r)
        /\ ( Has(d, "cachedToken") /\ CacheValid(d, readers[r].at) )
             => /\ readers[r].result = Res("token", "", d["cachedToken"].v)
                /\ readers[r].calls = 0

\* C3: a read of a record without ttl never takes the token from the cache,
\* whatever else the record holds: a read that returns a token has run
\* get-token once and returns its output.
C3_NoTtlAlwaysIssues ==
  \A r \in Readers :
    ( readers[r].got = "entry" /\ ~Has(readers[r].data, "ttl") ) =>
      /\ ~ServedFromCache(r)
      /\ ( readers[r].pc = "done" /\ readers[r].result.kind = "token" )
           => ServedFresh(r)

C3_Witness ==
  \E r \in Readers :
    /\ ServedFresh(r)
    /\ ~Has(readers[r].data, "ttl")
    /\ Has(readers[r].data, "cachedAt")
    /\ Has(readers[r].data, "cachedToken")

\* C4: a read of a path that holds no entry (never written, deleted, or
\* cleared by a write with an empty payload) returns the "no value at path"
\* response: it does not fail, does not crash and does not run get-token.
C4_ClearedReadsNoValue ==
  \A r \in Readers :
    ( readers[r].pc = "done" /\ readers[r].got = "nil" ) =>
      /\ readers[r].result = Res("response", "No value at", <<>>)
      /\ readers[r].calls = 0

\* C5: once get-token has printed a token during a read, the read returns
\* that token, also when putting the cache record fails.
C5_PutFailureStillReturns ==
  \A r \in Readers :
    ( readers[r].pc = "done" /\ readers[r].tok # <<>> ) =>
      readers[r].result = Res("token", "", readers[r].tok)

\* C6: a read of a stored record returns the validation response naming the
\* first missing field in the order key-file, organization, cluster, and no
\* validation response exactly when all three are there, whatever ttl and
\* cache fields the record holds.
C6_ValidationOrder ==
  \A r \in Readers :
    readers[r].got = "entry" =>
      LET d == readers[r].data
          response(msg) == readers[r].pc = "done"
                             /\ readers[r].result = Res("response", msg, <<>>)
      IN  /\ IsNil(d, "key-file") => response("No 'key-file' set")
          /\ ( ~IsNil(d, "key-file") /\ IsNil(d, "organization") )
               => response("No 'organization' set")
          /\ ( ~IsNil(d, "key-file") /\ ~IsNil(d, "organization")
               /\ IsNil(d, "cluster") ) => response("No 'cluster' set")
          /\ ( ~IsNil(d, "key-file") /\ ~IsNil(d, "organization")
               /\ ~IsNil(d, "cluster") ) => readers[r].result.kind # "response"

C6_Witness ==
  \E r \in Readers :
    /\ readers[r].pc = "done"
    /\ readers[r].got = "entry"
    /\ ~Has(readers[r].data, "key-file")
    /\ ~Has(readers[r].data, "cluster")
    /\ Has(readers[r].data, "ttl")
    /\ Has(readers[r].data, "cachedToken")
    /\ readers[r].result = Res("response", "No 'key-file' set", <<>>)

\* C7: the transient key file of a read is gone when the read returns, on
\* every exit path; when no read is in flight no transient key file exists.
C7_TmpFileScoped ==
  /\ \A r \in Readers : readers[r].pc \in {"idle", "done"} => r \notin tmpFiles
  /\ Quiet => tmpFiles = {}

C7_Witness ==
  \E r \in Readers :
    /\ readers[r].pc = "done"
    /\ readers[r].result = Res("error", "activate-service-account", <<>>)
    /\ tmpFiles = {}

\* a - b in int64.
I64Sub(a, b) == I64Add(a, I64Neg(b))

\* The quotient of an unsigned 64-bit number by a small k > 0.
U64DivSmall(a, k) ==
  LET c4 == a[4]
      c3 == (c4 % k) * LimbBase + a[3]
      c2 == (c3 % k) * LimbBase + a[2]
      c1 == (c2 % k) * LimbBase + a[1]
  IN  <<c1 \div k, c2 \div k, c3 \div k, c4 \div k>>

\* t + ttl*1000 stays within int64, for t >= 0 and ttl >= 0:
\* ttl <= (MaxInt64 - t) / 1000.
NoWrap(t, ttl) ==
  ~U64Less(U64DivSmall(I64Sub(MaxInt64, I64FromNat(t)), MillisPerSecond), ttl)

\* The record holds a ttl >= 0.
TtlNotNegative(data) ==
  Has(data, "ttl") /\ IsInteger(data, "ttl") /\ ~I64IsNeg(IntField(data, "ttl"))

C9_CacheFieldsPaired ==
  \A p \in Paths :
    storage[p] # NoEntry =>
      (Has(storage[p], "cachedToken") <=> Has(storage[p], "cachedAt"))

\* C9, amended: every stored record whose path was last written with a
\* payload that carries no cache field has cachedToken if and only if it has
\* cachedAt, and a read that returns a freshly issued token for a record with
\* ttl leaves both in the stored record.
C9_CacheFieldsPairedUnlessWritten ==
  /\ \A p \in Paths :
       ( storage[p] # NoEntry /\ lastWrite[p] # "cache" ) =>
         (Has(storage[p], "cachedToken") <=> Has(storage[p], "cachedAt"))
  /\ \A r \in Readers :
       ( ServedFresh(r) /\ Has(readers[r].data, "ttl") ) =>
         /\ Has(storage[readers[r].path], "cachedToken")
         /\ Has(storage[readers[r].path], "cachedAt")

C9_Witness ==
  \E r \in Readers :
    /\ ServedFresh(r)
    /\ readers[r].lw = "plain"
    /\ Has(readers[r].data, "ttl")
    /\ ~Has(readers[r].data, "cachedAt")
    /\ Has(storage[readers[r].path], "cachedToken")
    /\ Has(storage[readers[r].path], "cachedAt")

\* C10, as claimed: no sequence of writes, reads and deletes leaves
\* cachedToken or cachedAt in a stored record that has no ttl.
C10_NoCacheWithoutTtl ==
  \A p \in Paths :
    ( storage[p] # NoEntry /\ ~Has(storage[p], "ttl") ) =>
      /\ ~Has(storage[p], "cachedToken")
      /\ ~Has(storage[p], "cachedAt")

\* C10, amended: a stored record without ttl whose path was last written
\* with a payload that carries no cache field has neither cachedToken nor
\* cachedAt, also after reads of it that returned a token.
C10_NoCacheWithoutTtlUnlessWritten ==
  \A p \in Paths :
    ( storage[p] # NoEntry /\ ~Has(storage[p], "ttl") /\ lastWrite[p] # "cache" ) =>
      /\ ~Has(storage[p], "cachedToken")
      /\ ~Has(storage[p], "cachedAt")

C10_Witness ==
  \E r \in Readers :
    /\ ServedFresh(r)
    /\ readers[r].lw = "plain"
    /\ ~Has(readers[r].data, "ttl")
    /\ storage[readers[r].path] = readers[r].data

\* The record that the cache refresh of reader r puts at the instant t: the
\* record r loaded, with the token r was issued and t as cachedAt.
Refreshed(r, t) ==
  Marshal([readers[r].data EXCEPT !["cachedAt"] = GoInt64(I64FromNat(t)),
                                  !["cachedToken"] = Str(readers[r].tok)])

\* C11: two reads of one path whose cache is empty or expired may both run
\* get-token and both put a refreshed record.  A read that returns a token
\* after a miss returns the output of its own get-token, which no other read
\* in flight holds; and when the put of a read lands, the stored record is
\* wholly the one this read put, cachedToken and cachedAt both its own, so
\* after both reads the record is the one of the put that landed last.
C11_LastWriterWins ==
  \A r \in Readers :
    /\ ( readers[r].pc = "done" /\ readers[r].result.kind = "token"
         /\ readers[r].calls > 0 ) => ServedFresh(r)
    /\ \A q \in Readers \ {r} :
         readers[r].tok # <<>> => readers[q].tok # readers[r].tok
    /\ ( ServedFresh(r) /\ Has(readers[r].data, "ttl") ) =>
         /\ storage[readers[r].path] = Refreshed(r, now)
         /\ storage[readers[r].path]["cachedToken"] = Str(readers[r].tok)
         /\ storage[readers[r].path]["cachedAt"] = Num(Digits(now))

\* The put of one read has landed while the other read, which loaded the same
\* record and was issued a token of its own, has yet to put.
C11_Witness ==
  \E r \in Readers, q \in Readers :
    /\ r # q
    /\ ServedFresh(r)
    /\ Has(readers[r].data, "ttl")
    /\ readers[q].pc = "save"
    /\ readers[q].path = readers[r].path
    /\ readers[q].data = readers[r].data
    /\ readers[q].tok # <<>>
    /\ storage[readers[r].path]["cachedToken"] = Str(readers[r].tok)

\* The step is a handleWrite that has stored, at path p, a payload without
\* cache fields.
PlainWriteStep(p) ==
  /\ readers' = readers
  /\ lastWrite'[p] = "plain"
  /\ storage'[p] # storage[p] \/ lastWrite'[p] # lastWrite[p]

\* C12: a write of a payload without cache fields leaves a record without
\* cachedToken and cachedAt, whatever the record it replaces held; a read that
\* loads the record so written takes nothing from the cache: it works on the
\* stored credentials, and if it returns a token it has run get-token once
\* and returns its output.
C12_WriteReplacesCache ==
  /\ [][ \A p \in Paths :
           PlainWriteStep(p) =>
             /\ ~Has(storage'[p], "cachedToken")
             /\ ~Has(storage'[p], "cachedAt")
             /\ \E payload \in Payloads :
                  /\ ~CarriesCache(payload)
                  /\ writeBytes(payload).kind = "ok"
                  /\ storage'[p] = writeBytes(payload).bytes ]_vars
  /\ [] \A r \in Readers :
          ( /\ readers[r].got = "entry"
            /\ readers[r].lw = "plain"
            /\ ~CarriesCache(readers[r].data) ) =>
            /\ ~ServedFromCache(r)
            /\ ( readers[r].pc = "done" /\ readers[r].result.kind = "token" )
                 => ServedFresh(r)
            /\ readers[r].pc \in {"cache", "init", "tmp", "activate", "issue", "save"}
                 => readers[r].data = DecodeJSON(storage[readers[r].path])

\* A read has been issued the second token for a record with ttl that a write
\* without cache fields left, at the instant at which the first was issued.
C12_Witness ==
  \E r \in Readers :
    /\ ServedFresh(r)
    /\ readers[r].lw = "plain"
    /\ ~CarriesCache(readers[r].data)
    /\ readers[r].data["ttl"] = Num(Digits(1))
    /\ readers[r].tok = TokenOf(2)
    /\ now = 0

\* C13: every ttl in a stored record is a non-negative integer: a write that
\* stores a ttl given as an integer, a floating-point number or a numeric
\* string stores a non-negative integer, and no read changes it.
C13_StoredTtlNonNegative ==
  \A p \in Paths :
    Has(storage[p], "ttl") =>
      /\ IsInteger(storage[p], "ttl")
      /\ ~I64IsNeg(IntField(storage[p], "ttl"))

\* C14: when a read that missed the cache has put its refresh (the record it
\* loaded holds a ttl), the stored record is the loaded record with
\* cachedToken set to the token issued and cachedAt to the instant of the
\* refresh: key-file, organization, cluster, ttl and any other field are
\* stored as they were loaded.
C14_RefreshPreservesFields ==
  \A r \in Readers :
    ( ServedFresh(r) /\ Has(readers[r].data, "ttl") ) =>
      LET rec == storage[readers[r].path]
      IN  /\ \A f \in Fields \ {"cachedAt", "cachedToken"} :
               rec[f] = readers[r].data[f]
          /\ rec["cachedToken"].t = "string"
          /\ rec["cachedToken"].v = readers[r].tok
          /\ IsInteger(rec, "cachedAt")
          /\ IntField(rec, "cachedAt") = I64FromNat(now)

\* The refresh of a record that held a field the backend does not know and
\* an expired cache.
C14_Witness ==
  \E r \in Readers :
    /\ ServedFresh(r)
    /\ readers[r].data["ttl"] = Num(Digits(1))
    /\ readers[r].data["note"] = Str(KeyB)
    /\ Has(readers[r].data, "cachedToken")
    /\ readers[r].data["cachedToken"] # storage[readers[r].path]["cachedToken"]
    /\ storage[readers[r].path]["note"] = Str(KeyB)

ExternalFailures ==
  {"No user HOME directory", "snctl config init", "activate-service-account",
   "get-token"}

\* The call of reader r has returned the failure of an external step.
FailedExternally(r) ==
  /\ readers[r].pc = "done"
  /\ readers[r].result.kind = "error"
  /\ readers[r].result.msg \in ExternalFailures

\* C16: a read in which requireSnctlConfig, activateServiceAccount or
\* get-token fails returns that failure at once: get-token has run once if it
\* is the step that failed and never otherwise (no step is run again), the
\* response holds no token, the key file is gone, and the step that returns
\* the failure leaves storage as it was.  No read ever runs get-token twice,
\* and the call keeps nothing for the next read.
C16_FailureNotRetried ==
  /\ [] \A r \in Readers :
          /\ readers[r].calls <= 1
          /\ FailedExternally(r) =>
               /\ readers[r].calls =
                    (IF readers[r].result.msg = "get-token" THEN 1 ELSE 0)
               /\ readers[r].result.tok = <<>>
               /\ readers[r].tok = <<>>
               /\ r \notin tmpFiles
  /\ [][ \A r \in Readers :
           ( readers[r].pc # "done" /\ FailedExternally(r)' ) =>
             /\ storage' = storage
             /\ issued' = issued ]_vars
  /\ [][ \A r \in Readers :
           ( FailedExternally(r) /\ readers'[r] # readers[r] ) =>
             readers'[r] = IdleRead ]_vars

\* get-token has failed in a read of a record with ttl that held an expired
\* cache, and the record is stored as it was loaded.
C16_Witness ==
  \E r \in Readers :
    /\ FailedExternally(r)
    /\ readers[r].result.msg = "get-token"
    /\ readers[r].calls = 1
    /\ Has(readers[r].data, "ttl")
    /\ Has(readers[r].data, "cachedToken")
    /\ storage[readers[r].path] = readers[r].data

\* The call of reader r has loaded a record that fails validation.
LoadedInvalid(r) ==
  readers[r].got = "entry" /\ validateKeyData(readers[r].data) # ""

\* C17: a read whose record fails validation (key-file, organization or
\* cluster missing) returns the validation response and does nothing else: no
\* step of it runs `snctl config init`, an activation or get-token, creates a
\* key file or changes storage.
C17_ValidationFirst ==
  /\ [] \A r \in Readers :
          LoadedInvalid(r) =>
            /\ readers[r].calls = 0
            /\ r \notin tmpFiles
            /\ readers[r].pc = "done" =>
                 readers[r].result =
                   Res("response", validateKeyData(readers[r].data), <<>>)
  /\ [][ \A r \in Readers :
           ( LoadedInvalid(r) /\ readers'[r] # readers[r] ) =>
             /\ snctlDir' = snctlDir
             /\ storage' = storage
             /\ tmpFiles' = tmpFiles
             /\ issued' = issued ]_vars

\* A ttl that is no scalar (an object or array, a boolean, null) or is a
\* string that is no number.
Uncoercible(x) ==
  \/ x.t \in {"map", "bool", "nil"}
  \/ x.t = "string" /\ ~ParseInt(x.v).ok

\* C18: a write whose ttl is an object, an array, a boolean, null or a
\* non-numeric string returns an error and leaves the record stored at every
\* path as it was.
C18_RefusedTtlLeavesStorage ==
  [][ \A p \in Paths, payload \in Payloads :
        ( Uncoercible(payload["ttl"]) /\ handleWrite(p, payload) ) =>
          /\ writeResp'.kind = "error"
          /\ storage' = storage ]_vars

\* C19: a path on which a delete or a write with an empty payload was the
\* last write or delete to complete (or that was never written) holds no
\* record, also once a read that loaded the record before has finished.
C19_AbsentUntilWritten ==
  \A p \in Paths : lastWrite[p] = "none" => storage[p] = NoEntry

\* The fields of a record that only a write sets.
WrittenFields == {"key-file", "organization", "cluster", "ttl"}

\* C20: the put of a cache refresh never takes a completed write back: when
\* it lands on a path that holds a record, the key-file, organization,
\* cluster and ttl stored after it are the ones stored before it (those of
\* the last write), also when the read loaded its record before that write.
C20_WriteNotLost ==
  [][ \A r \in Readers :
        LET p == readers[r].path
        IN  ( /\ readers[r].pc = "save"
              /\ readers'[r].pc = "done"
              /\ storage[p] # NoEntry
              /\ storage'[p] # storage[p] ) =>
              \A f \in WrittenFields : storage'[p][f] = storage[p][f] ]_vars

\* The cachedToken of the record is a token that get-token printed when run
\* with the key-file, organization and cluster of this same record.
IssuedForRecord(rec) ==
  /\ rec["cachedToken"].t = "string"
  /\ \E n \in 1..Len(issuedFor) :
       /\ rec["cachedToken"].v = TokenOf(n)
       /\ issuedFor[n] = Credentials(rec)

\* C21, as claimed: where the cache fields come from reads only, the
\* cachedToken of every stored record was issued for the key-file,
\* organization and cluster of that record, and a read served from the cache
\* returns a token issued for the credentials stored at the path when it
\* returns; under any interleaving of the steps of reads, writes and deletes.
C21_HitMatchesStored ==
  /\ \A p \in Paths :
       ( lastWrite[p] # "cache" /\ Has(storage[p], "cachedToken") ) =>
         IssuedForRecord(storage[p])
  /\ \A r \in Readers :
       ( ServedFromCache(r) /\ readers[r].lw # "cache" ) =>
         \E n \in 1..Len(issuedFor) :
           /\ readers[r].result.tok = TokenOf(n)
           /\ issuedFor[n] = Credentials(storage[readers[r].path])

\* C21, amended: where the cache fields come from reads only (the path was
\* not last written with a payload that carries one), the cachedToken of
\* every stored
\* record was issued for the key-file, organization and cluster of that
\* record, and a read served from the cache returns the cachedToken of the
\* record it loaded, issued for the credentials of that record; under any
\* interleaving of the steps of reads, writes and deletes.
C21_CachedTokenOfRecord ==
  /\ Len(issuedFor) = issued
  /\ \A p \in Paths :
       ( lastWrite[p] # "cache" /\ Has(storage[p], "cachedToken") ) =>
         IssuedForRecord(storage[p])
  /\ \A r \in Readers :
       ( ServedFromCache(r) /\ readers[r].lw # "cache" ) =>
         /\ IssuedForRecord(readers[r].data)
         /\ readers[r].result.tok = readers[r].data["cachedToken"].v

\* A read is served from the cache of the record it loaded; a write of other
\* credentials has replaced that record since, and the record stored now holds
\* a token issued for its own credentials.
C21_Witness ==
  \E r \in Readers :
    /\ ServedFromCache(r)
    /\ IssuedForRecord(readers[r].data)
    /\ storage[readers[r].path] # NoEntry
    /\ Credentials(storage[readers[r].path]) # Credentials(readers[r].data)
    /\ IssuedForRecord(storage[readers[r].path])
====
